---- MODULE Spec2Model ----
(***************************************************************************)
(* Model of the RFM95W / SX127x LoRa driver (src/rfm95w.ts, namespace      *)
(* Lora).                                                                  *)
(*                                                                         *)
(* The chip is a register file `regs` (address -> byte), a FIFO memory and *)
(* two activity bits (a transmission or a reception in progress).  The     *)
(* driver is the module-level state of the namespace (_inited, _rxHandler, *)
(* _lastRssi, _lastSnrRaw, _sf, _bwCode), the handlers registered on the   *)
(* message bus, the queue of events waiting for their handler fiber, and   *)
(* the position of the fiber that currently runs.                          *)
(*                                                                         *)
(* Fibers are cooperative: a driver call runs until it returns or pauses   *)
(* (only init pauses).  Every register access of a call is one step of the *)
(* model, so the chip's own events (packet received, transmission done)    *)
(* interleave with the register accesses of a call.                        *)
(***************************************************************************)
EXTENDS Integers, Sequences, FiniteSets, TLC

(***************************************************************************)
(* Bounds of the model.                                                    *)
(***************************************************************************)
MaxInits == 1        \* init calls in one behaviour of Spec
MaxReinits == 2      \* init calls in one behaviour of SpecApi, SpecModem, SpecPower
MaxSends == 2        \* sendBuffer / sendString calls of an initialised device (Spec)
MaxApiSends == 1     \* the same, in SpecApi
MaxPkts == 2         \* packets the chip receives
MaxCalls == 1        \* setter calls of an initialised device (SpecApi, SpecPower)
MaxModemCalls == 3   \* modem setter calls of an initialised device (SpecModem)
FifoCells == 4       \* FIFO cells modelled (addresses wrap at this size)

(***************************************************************************)
(* SX127x register map (subset), src/rfm95w.ts 84-109.                     *)
(***************************************************************************)
REG_FIFO == 0
REG_OP_MODE == 1
REG_FRF_MSB == 6
REG_FRF_MID == 7
REG_FRF_LSB == 8
REG_PA_CONFIG == 9
REG_LNA == 12
REG_FIFO_ADDR_PTR == 13
REG_FIFO_TX_BASE_ADDR == 14
REG_FIFO_RX_BASE_ADDR == 15
REG_FIFO_RX_CURRENT_ADDR == 16
REG_IRQ_FLAGS == 18
REG_RX_NB_BYTES == 19
REG_PKT_SNR_VALUE == 25
REG_PKT_RSSI_VALUE == 26
REG_RSSI_VALUE == 27
REG_MODEM_CONFIG_1 == 29
REG_MODEM_CONFIG_2 == 30
REG_PREAMBLE_MSB == 32
REG_PREAMBLE_LSB == 33
REG_PAYLOAD_LENGTH == 34
REG_MODEM_CONFIG_3 == 38
REG_SYNC_WORD == 57
REG_DIO_MAPPING_1 == 64
REG_VERSION == 66
REG_PA_DAC == 77

\* Modes / bits, src/rfm95w.ts 112-116
MODE_LONG_RANGE == 128
MODE_SLEEP == 0
MODE_STDBY == 1
MODE_TX == 3
MODE_RX_CONTINUOUS == 5

\* IRQ flags, src/rfm95w.ts 119-122
IRQ_RX_DONE == 64
IRQ_TX_DONE == 8
IRQ_PAYLOAD_CRC_ERROR == 32
IRQ_CLEAR_ALL == 255

\* BW lookup table: bandwidth in kHz x 100 (indexed from 0 in the source)
BW_KHZ_X100 == <<780, 1040, 1560, 2080, 3125, 4170, 6250, 12500, 25000, 50000>>

\* enum Band
EU868 == 868
AU915 == 915

\* Event ids
INT_DIO0 == 0
APP_TX == 2

\* The version the driver accepts (init, line 319)
CHIP_VERSION == 18

(***************************************************************************)
(* Bit arithmetic on naturals, as the JavaScript operators &, |, << do on  *)
(* the non-negative values the driver handles.                             *)
(***************************************************************************)
RECURSIVE BitAnd(_, _)
BitAnd(a, b) ==
    IF a = 0 \/ b = 0 THEN 0
    ELSE (a % 2) * (b % 2) + 2 * BitAnd(a \div 2, b \div 2)

BitOr(a, b) == a + b - BitAnd(a, b)

RECURSIVE Pow2(_)
Pow2(n) == IF n = 0 THEN 1 ELSE 2 * Pow2(n - 1)

Shl(a, n) == a * Pow2(n)

Shr(a, n) == a \div Pow2(n)

Max(a, b) == IF a > b THEN a ELSE b

Min(a, b) == IF a < b THEN a ELSE b

\* One byte goes over the SPI bus per transfer (spiFormat(8, 0)).
Byte(v) == v % 256

(***************************************************************************)
(* Text <-> bytes.  A string is the sequence of its code points; a Buffer  *)
(* is a sequence of bytes.  control.createBufferFromUTF8 encodes, and      *)
(* Buffer.toString decodes, UTF-8 (code points below 2048 are modelled).   *)
(***************************************************************************)
EncodeChar(c) ==
    IF c < 128 THEN <<c>>
    ELSE <<192 + (c \div 64), 128 + (c % 64)>>

RECURSIVE createBufferFromUTF8(_)
createBufferFromUTF8(value) ==
    IF value = <<>> THEN <<>>
    ELSE EncodeChar(Head(value)) \o createBufferFromUTF8(Tail(value))

RECURSIVE toString(_)
toString(buf) ==
    IF buf = <<>> THEN <<>>
    ELSE IF buf[1] < 128 THEN <<buf[1]>> \o toString(Tail(buf))
    ELSE IF buf[1] >= 192 /\ buf[1] < 224 /\ Len(buf) >= 2
              /\ buf[2] >= 128 /\ buf[2] < 192
         THEN <<(buf[1] - 192) * 64 + (buf[2] - 128)>> \o toString(Tail(Tail(buf)))
    ELSE <<65533>> \o toString(Tail(buf))

(***************************************************************************)
(* State.                                                                  *)
(***************************************************************************)
VARIABLES
    regs,         \* the chip's registers: address -> byte
    fifo,         \* the chip's FIFO memory: cell -> byte
    txActive,     \* the chip is on air with a packet
    rxBusy,       \* the chip is part-way through receiving a packet
    _inited,      \* let _inited = false
    _rxHandler,   \* let _rxHandler = null    (0 models null)
    _lastRssi,    \* let _lastRssi = 0
    _lastSnrRaw,  \* let _lastSnrRaw = 0
    _sf,          \* let _sf = 7
    _bwCode,      \* let _bwCode = 7
    pulsed,       \* pins.onPulsed(_dio0, High, ...) has been registered
    handlers,     \* control.onEvent registrations: event value -> handler (0 = none)
    runQ,         \* fibers waiting to run, in arrival order
    pc,           \* where the running fiber is ("idle": no fiber runs)
    who,          \* the function the running fiber executes
    prog,         \* the register operations the running call has still to issue
    loc,          \* the locals of the running handler or call
    initPc,       \* where the fiber that called init is (it pauses four times)
    initBand,     \* init's argument
    version,      \* init's local `version`
    busLog,       \* the bus transactions of the running call, cleared when it returns or pauses
    hist          \* counters and logs that bound the model and state the claims

vars == <<regs, fifo, txActive, rxBusy, _inited, _rxHandler, _lastRssi, _lastSnrRaw,
          _sf, _bwCode, pulsed, handlers, runQ, pc, who, prog, loc, initPc, initBand,
          version, busLog, hist>>

chipVars == <<regs, fifo, txActive, rxBusy>>
driverVars == <<_inited, _rxHandler, _lastRssi, _lastSnrRaw, _sf, _bwCode>>
busVars == <<pulsed, handlers>>
initVars == <<initPc, initBand, version>>

Regs == {REG_OP_MODE, REG_FRF_MSB, REG_FRF_MID, REG_FRF_LSB, REG_PA_CONFIG, REG_LNA,
         REG_FIFO_ADDR_PTR, REG_FIFO_TX_BASE_ADDR, REG_FIFO_RX_BASE_ADDR,
         REG_FIFO_RX_CURRENT_ADDR, REG_IRQ_FLAGS, REG_RX_NB_BYTES, REG_PKT_SNR_VALUE,
         REG_PKT_RSSI_VALUE, REG_MODEM_CONFIG_1, REG_MODEM_CONFIG_2, REG_PREAMBLE_MSB,
         REG_PREAMBLE_LSB, REG_PAYLOAD_LENGTH, REG_MODEM_CONFIG_3, REG_SYNC_WORD,
         REG_DIO_MAPPING_1, REG_PA_DAC}

Cells == 0 .. (FifoCells - 1)

\* The register values of the chip after a reset (resetChip pulses the RST pin).
ChipDefaults ==
    [a \in Regs |->
        CASE a = REG_OP_MODE -> 9
          [] a = REG_FRF_MSB -> 108
          [] a = REG_FRF_MID -> 128
          [] a = REG_PA_CONFIG -> 79
          [] a = REG_LNA -> 32
          [] a = REG_FIFO_TX_BASE_ADDR -> 128
          [] a = REG_MODEM_CONFIG_1 -> 114
          [] a = REG_MODEM_CONFIG_2 -> 112
          [] a = REG_PREAMBLE_LSB -> 8
          [] a = REG_PAYLOAD_LENGTH -> 1
          [] a = REG_SYNC_WORD -> 18
          [] a = REG_PA_DAC -> 132
          [] OTHER -> 0]

NoLocals == [arg |-> 0, buf |-> <<>>, flags |-> 0, currentAddr |-> 0, len |-> 0,
             pkt |-> <<>>, retval |-> 0, quarters |-> 0]

NoHist == [inits |-> 0, sends |-> 0, calls |-> 0, pkts |-> 0, txDone |-> 0, appTx |-> 0,
           sent |-> 0, rxRaised |-> <<>>, rxDelivered |-> <<>>, flagged |-> 0]

(***************************************************************************)
(* The chip.                                                               *)
(***************************************************************************)
\* A register write as the chip takes it: a 1 written to an IRQ flag clears it.
ChipWrite(r, addr, value) ==
    [r EXCEPT ![addr] = IF addr = REG_IRQ_FLAGS
                        THEN BitAnd(r[addr], 255 - Byte(value))
                        ELSE Byte(value)]

\* Writing the TX mode starts a transmission; any other mode write ends one.
TxAfter(addr, value) ==
    IF addr = REG_OP_MODE
    THEN Byte(value) = BitOr(MODE_LONG_RANGE, MODE_TX)
    ELSE txActive

\* A reception in progress survives only a rewrite of the continuous-receive mode.
RxAfter(addr, value) ==
    IF addr = REG_OP_MODE
    THEN rxBusy /\ Byte(value) = BitOr(MODE_LONG_RANGE, MODE_RX_CONTINUOUS)
                /\ regs[REG_OP_MODE] = BitOr(MODE_LONG_RANGE, MODE_RX_CONTINUOUS)
    ELSE rxBusy

\* Bits 7..6 of REG_DIO_MAPPING_1: 00 => RxDone, 01 => TxDone.
Dio0Mapping(r) == Shr(r[REG_DIO_MAPPING_1], 6)

\* The level of the DIO0 pin: the IRQ flag the mapping selects.
Dio0Level(r) ==
    \/ Dio0Mapping(r) = 0 /\ BitAnd(r[REG_IRQ_FLAGS], IRQ_RX_DONE) # 0
    \/ Dio0Mapping(r) = 1 /\ BitAnd(r[REG_IRQ_FLAGS], IRQ_TX_DONE) # 0

\* Bytes stored into / read from the FIFO from cell `ptr` on (the pointer wraps).
FifoStore(f, ptr, buf) ==
    [c \in Cells |->
        IF \E k \in 1 .. Len(buf) : (ptr + k - 1) % FifoCells = c
        THEN buf[CHOOSE k \in 1 .. Len(buf) :
                    /\ (ptr + k - 1) % FifoCells = c
                    /\ \A j \in 1 .. Len(buf) : (ptr + j - 1) % FifoCells = c => j <= k]
        ELSE f[c]]

FifoLoad(f, ptr, len) == [k \in 1 .. len |-> f[(ptr + k - 1) % FifoCells]]

(***************************************************************************)
(* The message bus and the fiber queue.                                    *)
(***************************************************************************)
Fiber(kind, ev, h, msg) == [kind |-> kind, ev |-> ev, h |-> h, msg |-> msg]

\* control.raiseEvent(LORA_EVENT_ID, value): the handler registered for the
\* event, if any, is queued to run in a fiber of its own.
raiseEvent(q, value) ==
    IF handlers[value] # 0
    THEN Append(q, Fiber("event", value, handlers[value], <<>>))
    ELSE q

\* pins.onPulsed(_dio0, PulseValue.High, ...): DIO0 going high raises INT_DIO0.
onPulsed(rOld, rNew, q) ==
    IF pulsed /\ ~Dio0Level(rOld) /\ Dio0Level(rNew)
    THEN raiseEvent(q, INT_DIO0)
    ELSE q

(***************************************************************************)
(* Register operations of the driver.  A call is the sequence of the       *)
(* operations it issues; the running fiber issues them one per step.       *)
(***************************************************************************)
Ins(op, reg, val, mask, buf) ==
    [op |-> op, reg |-> reg, val |-> val, mask |-> mask, buf |-> buf]

\* A bus transaction as logged: R/W of one register, BR/BW of the FIFO.
T(op, reg, val, buf) == [op |-> op, reg |-> reg, val |-> val, buf |-> buf]

writeReg(addr, value) == <<Ins("W", addr, value, 0, <<>>)>>

\* v = readReg(addr); writeReg(addr, (v & mask) | bits)
readModifyWrite(addr, mask, bits) == <<Ins("RMW", addr, bits, mask, <<>>)>>

burstWrite(addr, buf) == <<Ins("BW", addr, 0, 0, buf)>>

setMode(mode) == writeReg(REG_OP_MODE, BitOr(MODE_LONG_RANGE, mode))

\* <<quotient, remainder>> of a * b divided by c, computed bit by bit of b so
\* that no intermediate value leaves the 32-bit integers of the model checker.
RECURSIVE MulDivMod(_, _, _)
MulDivMod(a, b, c) ==
    IF b = 0 THEN <<0, 0>>
    ELSE LET h == MulDivMod(a, b \div 2, c)
             t == 2 * h[2] + (b % 2) * a
         IN  <<2 * h[1] + (t \div c), t % c>>

\* setFrequencyMHz sending the frequency word least-significant byte first
setFrequencyMHzLsbFirst(mhz) ==
    LET freqHz == mhz * 1000000
        frf == MulDivMod(freqHz, 524288, 32000000)[1]
    IN  writeReg(REG_FRF_MSB, BitAnd(frf, 255))
        \o writeReg(REG_FRF_MID, BitAnd(Shr(frf, 8), 255))
        \o writeReg(REG_FRF_LSB, BitAnd(Shr(frf, 16), 255))

setFrequencyMHz(mhz) ==
    LET freqHz == mhz * 1000000
        frf == MulDivMod(freqHz, 524288, 32000000)[1]
    IN  writeReg(REG_FRF_MSB, BitAnd(Shr(frf, 16), 255))
        \o writeReg(REG_FRF_MID, BitAnd(Shr(frf, 8), 255))
        \o writeReg(REG_FRF_LSB, BitAnd(frf, 255))

needLdro == (Shl(1, _sf) * 100) > (16 * BW_KHZ_X100[_bwCode + 1])

\* The value applyLdro writes to REG_MODEM_CONFIG_3 when it has read v.
applyLdroValue(v) == IF needLdro THEN BitOr(v, 8) ELSE BitAnd(v, 247)

applyLdro == <<Ins("LDRO", REG_MODEM_CONFIG_3, 0, 0, <<>>)>>

\* configRadioDefaults without its sync word write
configRadioDefaultsNoSyncWord(band) ==
    writeReg(REG_FIFO_TX_BASE_ADDR, 0)
    \o writeReg(REG_FIFO_RX_BASE_ADDR, 0)
    \o writeReg(REG_FIFO_ADDR_PTR, 0)
    \o writeReg(REG_PREAMBLE_MSB, 0)
    \o writeReg(REG_PREAMBLE_LSB, 8)
    \o (IF band = EU868 THEN setFrequencyMHz(868) ELSE setFrequencyMHz(915))
    \o writeReg(REG_MODEM_CONFIG_1, 114)
    \o writeReg(REG_MODEM_CONFIG_2, 116)
    \o writeReg(REG_MODEM_CONFIG_3, 4)
    \o readModifyWrite(REG_LNA, 255, 3)
    \o writeReg(REG_PA_CONFIG, BitOr(128, 15))
    \o writeReg(REG_PA_DAC, 132)
    \o writeReg(REG_DIO_MAPPING_1, 0)

configRadioDefaults(band) ==
    writeReg(REG_FIFO_TX_BASE_ADDR, 0)
    \o writeReg(REG_FIFO_RX_BASE_ADDR, 0)
    \o writeReg(REG_FIFO_ADDR_PTR, 0)
    \o writeReg(REG_PREAMBLE_MSB, 0)
    \o writeReg(REG_PREAMBLE_LSB, 8)
    \o writeReg(REG_SYNC_WORD, 52)
    \o (IF band = EU868 THEN setFrequencyMHz(868) ELSE setFrequencyMHz(915))
    \o writeReg(REG_MODEM_CONFIG_1, 114)
    \o writeReg(REG_MODEM_CONFIG_2, 116)
    \o writeReg(REG_MODEM_CONFIG_3, 4)
    \o readModifyWrite(REG_LNA, 255, 3)
    \o writeReg(REG_PA_CONFIG, BitOr(128, 15))
    \o writeReg(REG_PA_DAC, 132)
    \o writeReg(REG_DIO_MAPPING_1, 0)

setDio0Mapping(mapping) ==
    readModifyWrite(REG_DIO_MAPPING_1, 63, Shl(BitAnd(mapping, 3), 6))

setupDio0Interrupt == <<Ins("SETUP", 0, 0, 0, <<>>)>>

\* init from the last pause (line 327) to its return.
initTail(band) ==
    configRadioDefaults(band)
    \o writeReg(REG_IRQ_FLAGS, IRQ_CLEAR_ALL)
    \o setMode(MODE_RX_CONTINUOUS)
    \o setupDio0Interrupt
    \o setDio0Mapping(0)
    \o writeReg(REG_IRQ_FLAGS, IRQ_CLEAR_ALL)
    \o setMode(MODE_RX_CONTINUOUS)
    \o <<Ins("INITED", 0, 1, 0, <<>>)>>

\* sendBuffer setting the DIO0 mapping after it has started the transmission
sendBufferMappingLast(buf) ==
    IF ~_inited THEN <<>>
    ELSE setMode(MODE_STDBY)
         \o writeReg(REG_IRQ_FLAGS, IRQ_CLEAR_ALL)
         \o writeReg(REG_FIFO_ADDR_PTR, 0)
         \o burstWrite(REG_FIFO, buf)
         \o writeReg(REG_PAYLOAD_LENGTH, Len(buf))
         \o setMode(MODE_TX)
         \o setDio0Mapping(1)

sendBuffer(buf) ==
    IF ~_inited THEN <<>>
    ELSE setMode(MODE_STDBY)
         \o writeReg(REG_IRQ_FLAGS, IRQ_CLEAR_ALL)
         \o setDio0Mapping(1)
         \o writeReg(REG_FIFO_ADDR_PTR, 0)
         \o burstWrite(REG_FIFO, buf)
         \o writeReg(REG_PAYLOAD_LENGTH, Len(buf))
         \o setMode(MODE_TX)

sendString(value) ==
    IF ~_inited THEN <<>>
    ELSE sendBuffer(createBufferFromUTF8(value))

\* setTxPower without its high-power branch
setTxPowerStandardOnly(dBm) ==
    IF ~_inited THEN <<>>
    ELSE LET power == Max(0, Min(15, dBm - 2))
         IN  writeReg(REG_PA_CONFIG, BitOr(128, power)) \o writeReg(REG_PA_DAC, 132)

setTxPower(dBm) ==
    IF ~_inited THEN <<>>
    ELSE IF dBm = 20
         THEN writeReg(REG_PA_CONFIG, BitOr(128, 15)) \o writeReg(REG_PA_DAC, 135)
         ELSE LET power == Max(0, Min(15, dBm - 2))
              IN  writeReg(REG_PA_CONFIG, BitOr(128, power)) \o writeReg(REG_PA_DAC, 132)

setSpreadingFactor(sf) ==
    IF ~_inited THEN <<>>
    ELSE <<Ins("SF", 0, sf, 0, <<>>)>>
         \o readModifyWrite(REG_MODEM_CONFIG_2, 15, Shl(sf, 4))
         \o applyLdro

\* setBandwidth putting the chip in Standby before it changes the register
setBandwidthInStandby(bw) ==
    IF ~_inited THEN <<>>
    ELSE <<Ins("BWC", 0, bw, 0, <<>>)>>
         \o setMode(MODE_STDBY)
         \o readModifyWrite(REG_MODEM_CONFIG_1, 15, Shl(bw, 4))
         \o applyLdro

setBandwidth(bw) ==
    IF ~_inited THEN <<>>
    ELSE <<Ins("BWC", 0, bw, 0, <<>>)>>
         \o readModifyWrite(REG_MODEM_CONFIG_1, 15, Shl(bw, 4))
         \o applyLdro

\* setCodingRate keeping only bit 0 of the register it read
setCodingRateDroppingBandwidth(cr) ==
    IF ~_inited THEN <<>>
    ELSE readModifyWrite(REG_MODEM_CONFIG_1, 1, Shl(cr, 1))

setCodingRate(cr) ==
    IF ~_inited THEN <<>>
    ELSE readModifyWrite(REG_MODEM_CONFIG_1, 241, Shl(cr, 1))

\* setSyncWord without its _inited guard
setSyncWordUnguarded(word) == writeReg(REG_SYNC_WORD, word)

setSyncWord(word) ==
    IF ~_inited THEN <<>>
    ELSE writeReg(REG_SYNC_WORD, word)

(***************************************************************************)
(* Initial state: the chip after power-on, the namespace's initial values. *)
(***************************************************************************)
Init ==
    /\ regs = ChipDefaults
    /\ fifo = [c \in Cells |-> 0]
    /\ txActive = FALSE
    /\ rxBusy = FALSE
    /\ _inited = FALSE
    /\ _rxHandler = 0
    /\ _lastRssi = 0
    /\ _lastSnrRaw = 0
    /\ _sf = 7
    /\ _bwCode = 7
    /\ pulsed = FALSE
    /\ handlers = [e \in {INT_DIO0, APP_TX} |-> 0]
    /\ runQ = <<>>
    /\ pc = "idle"
    /\ who = "none"
    /\ prog = <<>>
    /\ loc = NoLocals
    /\ initPc = "idle"
    /\ initBand = EU868
    /\ version = 0
    /\ busLog = <<>>
    /\ hist = NoHist

(***************************************************************************)
(* The running call issues its next register operation.                    *)
(***************************************************************************)
\* writeReg(addr, value) on the bus, with the chip's reaction; `log` is what
\* the operation adds to the bus log.
BusWrite(addr, value, log) ==
    /\ regs' = ChipWrite(regs, addr, value)
    /\ txActive' = TxAfter(addr, value)
    /\ rxBusy' = RxAfter(addr, value)
    /\ runQ' = onPulsed(regs, regs', runQ)
    /\ busLog' = busLog \o log

Step ==
    /\ pc = "run"
    /\ prog # <<>>
    /\ prog' = Tail(prog)
    /\ pc' = IF Tail(prog) = <<>> THEN "ret" ELSE "run"
    /\ LET i == Head(prog) IN
        \/ /\ i.op = "W"
           /\ BusWrite(i.reg, i.val, <<T("W", i.reg, Byte(i.val), <<>>)>>)
           /\ UNCHANGED <<fifo, driverVars, busVars>>
        \/ /\ i.op = "RMW"
           /\ LET v == regs[i.reg]
                  w == Byte(BitOr(BitAnd(v, i.mask), i.val))
              IN  BusWrite(i.reg, w, <<T("R", i.reg, v, <<>>), T("W", i.reg, w, <<>>)>>)
           /\ UNCHANGED <<fifo, driverVars, busVars>>
        \/ /\ i.op = "LDRO"
           /\ LET v == regs[i.reg]
                  w == Byte(applyLdroValue(v))
              IN  BusWrite(i.reg, w, <<T("R", i.reg, v, <<>>), T("W", i.reg, w, <<>>)>>)
           /\ UNCHANGED <<fifo, driverVars, busVars>>
        \/ /\ i.op = "BW"
           /\ fifo' = FifoStore(fifo, regs[REG_FIFO_ADDR_PTR] % FifoCells, i.buf)
           /\ regs' = [regs EXCEPT ![REG_FIFO_ADDR_PTR] = (@ + Len(i.buf)) % FifoCells]
           /\ busLog' = Append(busLog, T("BW", REG_FIFO, 0, i.buf))
           /\ UNCHANGED <<txActive, rxBusy, runQ, driverVars, busVars>>
        \/ /\ i.op = "SF"
           /\ _sf' = i.val
           /\ UNCHANGED <<chipVars, _inited, _rxHandler, _lastRssi, _lastSnrRaw, _bwCode,
                          busVars, runQ, busLog>>
        \/ /\ i.op = "BWC"
           /\ _bwCode' = i.val
           /\ UNCHANGED <<chipVars, _inited, _rxHandler, _lastRssi, _lastSnrRaw, _sf,
                          busVars, runQ, busLog>>
        \/ /\ i.op = "SETUP"
           /\ pulsed' = TRUE
           /\ handlers' = [handlers EXCEPT ![INT_DIO0] = 1]
           /\ UNCHANGED <<chipVars, driverVars, runQ, busLog>>
        \/ /\ i.op = "INITED"
           /\ _inited' = TRUE
           /\ UNCHANGED <<chipVars, _rxHandler, _lastRssi, _lastSnrRaw, _sf, _bwCode,
                          busVars, runQ, busLog>>
        \/ /\ i.op = "RAISE"
           /\ runQ' = raiseEvent(runQ, i.val)
           /\ hist' = [hist EXCEPT !.appTx = @ + 1]
           /\ UNCHANGED <<chipVars, driverVars, busVars, busLog>>
    /\ IF Head(prog).op = "RAISE" THEN TRUE ELSE UNCHANGED hist
    /\ UNCHANGED <<who, loc, initVars>>

\* The running call returns to its caller; its locals and its bus log end.
Return ==
    /\ pc = "ret"
    /\ pc' = "idle"
    /\ who' = "none"
    /\ prog' = <<>>
    /\ loc' = NoLocals
    /\ busLog' = <<>>
    /\ IF who = "init"
       THEN initPc' = "idle" /\ version' = 0 /\ UNCHANGED initBand
       ELSE UNCHANGED initVars
    /\ UNCHANGED <<chipVars, driverVars, busVars, runQ, hist>>

(***************************************************************************)
(* init(band), lines 313-343.  It pauses in resetChip (twice) and after    *)
(* each of its first two mode writes; other fibers run during a pause.     *)
(***************************************************************************)
Bands == {EU868, AU915}

\* What REG_VERSION may read: an SX1276 (0x12), or something else.
VersionReads == {CHIP_VERSION, 0}

\* spiInit(); resetChip(): RST low, pause(2)
InitCall(band, max) ==
    /\ pc = "idle"
    /\ initPc = "idle"
    /\ hist.inits < max
    /\ hist' = [hist EXCEPT !.inits = @ + 1]
    /\ regs' = ChipDefaults
    /\ txActive' = FALSE
    /\ rxBusy' = FALSE
    /\ initPc' = "rst_low"
    /\ initBand' = band
    /\ UNCHANGED <<fifo, driverVars, busVars, runQ, pc, who, prog, loc, version, busLog>>

\* resetChip(): RST high, pause(10)
InitResetRelease ==
    /\ pc = "idle"
    /\ initPc = "rst_low"
    /\ regs' = ChipDefaults
    /\ txActive' = FALSE
    /\ rxBusy' = FALSE
    /\ initPc' = "rst_high"
    /\ UNCHANGED <<fifo, driverVars, busVars, runQ, pc, who, prog, loc, initBand, version,
                   busLog, hist>>

\* init putting the chip to sleep before it looks at the version it read
InitVersionAfterSleep(v) ==
    /\ pc = "idle"
    /\ initPc = "rst_high"
    /\ version' = v
    /\ BusWrite(REG_OP_MODE, BitOr(MODE_LONG_RANGE, MODE_SLEEP),
                <<T("R", REG_VERSION, v, <<>>),
                  T("W", REG_OP_MODE, BitOr(MODE_LONG_RANGE, MODE_SLEEP), <<>>)>>)
    /\ \/ /\ v # CHIP_VERSION
          /\ _inited' = FALSE
          /\ pc' = "ret"
          /\ who' = "init"
          /\ UNCHANGED initPc
       \/ /\ v = CHIP_VERSION
          /\ initPc' = "slept"
          /\ UNCHANGED <<_inited, pc, who>>
    /\ UNCHANGED <<fifo, _rxHandler, _lastRssi, _lastSnrRaw, _sf, _bwCode, busVars, prog,
                   loc, initBand, hist>>

\* const version = readReg(REG_VERSION); if (version != 0x12) { _inited = false; return }
\* setMode(MODE_SLEEP); pause(10)
InitVersion(v) ==
    /\ pc = "idle"
    /\ initPc = "rst_high"
    /\ version' = v
    /\ \/ /\ v # CHIP_VERSION
          /\ _inited' = FALSE
          /\ pc' = "ret"
          /\ who' = "init"
          /\ busLog' = <<T("R", REG_VERSION, v, <<>>)>>
          /\ UNCHANGED <<chipVars, runQ, initPc>>
       \/ /\ v = CHIP_VERSION
          /\ BusWrite(REG_OP_MODE, BitOr(MODE_LONG_RANGE, MODE_SLEEP), <<>>)
          /\ initPc' = "slept"
          /\ UNCHANGED <<fifo, _inited, pc, who>>
    /\ UNCHANGED <<_rxHandler, _lastRssi, _lastSnrRaw, _sf, _bwCode, busVars, prog, loc,
                   initBand, hist>>

\* setMode(MODE_STDBY); pause(10)
InitStandby ==
    /\ pc = "idle"
    /\ initPc = "slept"
    /\ BusWrite(REG_OP_MODE, BitOr(MODE_LONG_RANGE, MODE_STDBY), <<>>)
    /\ initPc' = "stdby"
    /\ UNCHANGED <<fifo, driverVars, busVars, pc, who, prog, loc, initBand, version, hist>>

\* configRadioDefaults(band) ... _inited = true, without a pause
InitConfigure ==
    /\ pc = "idle"
    /\ initPc = "stdby"
    /\ initPc' = "tail"
    /\ pc' = "run"
    /\ who' = "init"
    /\ prog' = initTail(initBand)
    /\ UNCHANGED <<chipVars, driverVars, busVars, runQ, loc, initBand, version, busLog, hist>>

(***************************************************************************)
(* Calls of the public interface other than init.  None of them pauses.    *)
(***************************************************************************)
\* A call with number argument arg or buffer / string argument buf starts; its
\* register operations are p (it is over at once if p is empty).
Call(name, arg, buf, p) ==
    /\ pc = "idle"
    /\ who' = name
    /\ loc' = [NoLocals EXCEPT !.arg = arg, !.buf = buf]
    /\ prog' = p
    /\ pc' = IF p = <<>> THEN "ret" ELSE "run"
    /\ UNCHANGED <<chipVars, driverVars, busVars, runQ, initVars, busLog>>

\* The call counts against the bound `max` of field `f` once the device is initialised.
Counted(f, max) ==
    /\ hist[f] < max
    /\ hist' = [hist EXCEPT ![f] = IF _inited THEN @ + 1 ELSE @]

CallSendBuffer(buf, max) ==
    Counted("sends", max) /\ Call("sendBuffer", 0, buf, sendBuffer(buf))

CallSendString(value, max) ==
    Counted("sends", max) /\ Call("sendString", 0, value, sendString(value))

CallSetTxPower(dBm, max) ==
    Counted("calls", max) /\ Call("setTxPower", dBm, <<>>, setTxPower(dBm))

CallSetSpreadingFactor(sf, max) ==
    /\ Counted("calls", max)
    /\ Call("setSpreadingFactor", sf, <<>>, setSpreadingFactor(sf))

CallSetBandwidth(bw, max) ==
    Counted("calls", max) /\ Call("setBandwidth", bw, <<>>, setBandwidth(bw))

CallSetCodingRate(cr, max) ==
    Counted("calls", max) /\ Call("setCodingRate", cr, <<>>, setCodingRate(cr))

CallSetSyncWord(word, max) ==
    Counted("calls", max) /\ Call("setSyncWord", word, <<>>, setSyncWord(word))

\* onReceivedString(handler): _rxHandler = handler
onReceivedString(handler) ==
    /\ pc = "idle"
    /\ _rxHandler' = handler
    /\ UNCHANGED <<chipVars, _inited, _lastRssi, _lastSnrRaw, _sf, _bwCode, busVars, runQ,
                   pc, who, prog, loc, initVars, busLog, hist>>

\* onSent(handler): control.onEvent(LORA_EVENT_ID, APP_TX, handler).  The bus
\* keeps one handler per event source and value: the last one registered.
onSent(handler) ==
    /\ pc = "idle"
    /\ handlers' = [handlers EXCEPT ![APP_TX] = handler]
    /\ UNCHANGED <<chipVars, driverVars, pulsed, runQ, pc, who, prog, loc, initVars,
                   busLog, hist>>

\* channelRssi(): if (!_inited) return 0; return readReg(REG_RSSI_VALUE) - 157
\* (r is what the live RSSI register reads).
channelRssi(r) ==
    /\ pc = "idle"
    /\ who' = "channelRssi"
    /\ pc' = "ret"
    /\ IF ~_inited
       THEN loc' = [loc EXCEPT !.retval = 0] /\ UNCHANGED busLog
       ELSE /\ loc' = [loc EXCEPT !.retval = r - 157]
            /\ busLog' = <<T("R", REG_RSSI_VALUE, r, <<>>)>>
    /\ UNCHANGED <<chipVars, driverVars, busVars, runQ, prog, initVars, hist>>

\* receivedSignalStrength(): return _lastRssi
receivedSignalStrength ==
    /\ pc = "idle"
    /\ who' = "receivedSignalStrength"
    /\ pc' = "ret"
    /\ loc' = [loc EXCEPT !.retval = _lastRssi]
    /\ UNCHANGED <<chipVars, driverVars, busVars, runQ, prog, initVars, busLog, hist>>

\* receivedSnr without the conversion of the raw byte to a signed value
receivedSnrUnsigned ==
    /\ pc = "idle"
    /\ who' = "receivedSnr"
    /\ pc' = "ret"
    /\ loc' = [loc EXCEPT !.retval = _lastSnrRaw \div 4, !.quarters = _lastSnrRaw % 4]
    /\ UNCHANGED <<chipVars, driverVars, busVars, runQ, prog, initVars, busLog, hist>>

\* receivedSnr(): const raw = _lastSnrRaw > 127 ? _lastSnrRaw - 256 : _lastSnrRaw
\* return raw / 4.  The quotient is returned as retval + quarters / 4, with
\* retval the floor of raw / 4 and quarters in 0..3.
receivedSnr ==
    /\ pc = "idle"
    /\ who' = "receivedSnr"
    /\ pc' = "ret"
    /\ LET raw == IF _lastSnrRaw > 127 THEN _lastSnrRaw - 256 ELSE _lastSnrRaw
       IN  loc' = [loc EXCEPT !.retval = raw \div 4, !.quarters = raw % 4]
    /\ UNCHANGED <<chipVars, driverVars, busVars, runQ, prog, initVars, busLog, hist>>

(***************************************************************************)
(* The chip's own events.                                                  *)
(***************************************************************************)
\* The packets on the air: "Hi" and "e-acute", with their signal readings.
RxPackets ==
    { [payload |-> <<72, 105>>, rssi |-> 100, snr |-> 8],
      [payload |-> <<195, 169>>, rssi |-> 60, snr |-> 255] }

\* In continuous-receive mode the chip locks onto a packet.  A packet takes far
\* longer on the air than a call takes between two pauses, so a reception that
\* completes during a call began before that call.
HwRxStart(max) ==
    /\ pc = "idle"
    /\ regs[REG_OP_MODE] = BitOr(MODE_LONG_RANGE, MODE_RX_CONTINUOUS)
    /\ ~rxBusy
    /\ hist.pkts < max
    /\ rxBusy' = TRUE
    /\ hist' = [hist EXCEPT !.pkts = @ + 1]
    /\ UNCHANGED <<regs, fifo, txActive, driverVars, busVars, runQ, pc, who, prog, loc,
                   initVars, busLog>>

\* The packet is complete: it is in the FIFO after the previous one, its length
\* and signal readings are in their registers, RxDone (and, on a bad CRC,
\* PayloadCrcError) is flagged, and DIO0 follows the flag its mapping selects.
HwRxDone(p, crcError) ==
    /\ rxBusy
    /\ rxBusy' = FALSE
    /\ LET start == (regs[REG_FIFO_RX_CURRENT_ADDR] + regs[REG_RX_NB_BYTES]) % FifoCells
           irq == BitOr(IRQ_RX_DONE, IF crcError THEN IRQ_PAYLOAD_CRC_ERROR ELSE 0)
       IN  /\ fifo' = FifoStore(fifo, start, p.payload)
           /\ regs' = [regs EXCEPT ![REG_FIFO_RX_CURRENT_ADDR] = start,
                                   ![REG_RX_NB_BYTES] = Len(p.payload),
                                   ![REG_PKT_RSSI_VALUE] = p.rssi,
                                   ![REG_PKT_SNR_VALUE] = p.snr,
                                   ![REG_IRQ_FLAGS] = BitOr(@, irq)]
    /\ runQ' = onPulsed(regs, regs', runQ)
    /\ hist' = IF runQ' # runQ /\ ~crcError /\ _inited /\ _rxHandler # 0
               THEN [hist EXCEPT !.rxRaised = Append(@, toString(p.payload))]
               ELSE hist
    /\ UNCHANGED <<txActive, driverVars, busVars, pc, who, prog, loc, initVars, busLog>>

\* The packet has left the antenna: TxDone is flagged and DIO0 follows.
HwTxDone ==
    /\ txActive
    /\ txActive' = FALSE
    /\ regs' = [regs EXCEPT ![REG_IRQ_FLAGS] = BitOr(@, IRQ_TX_DONE)]
    /\ runQ' = onPulsed(regs, regs', runQ)
    /\ hist' = [hist EXCEPT !.txDone = @ + 1]
    /\ UNCHANGED <<fifo, rxBusy, driverVars, busVars, pc, who, prog, loc, initVars, busLog>>

\* A spurious condition: the chip sets the IRQ flags f, whatever it is doing,
\* and DIO0 follows the flag its mapping selects.
HwFlags(f, max) ==
    /\ hist.flagged < max
    /\ hist' = [hist EXCEPT !.flagged = @ + 1]
    /\ regs' = [regs EXCEPT ![REG_IRQ_FLAGS] = BitOr(@, f)]
    /\ runQ' = onPulsed(regs, regs', runQ)
    /\ UNCHANGED <<fifo, txActive, rxBusy, driverVars, busVars, pc, who, prog, loc,
                   initVars, busLog>>

(***************************************************************************)
(* Fibers the scheduler starts: the DIO0 event handler of                  *)
(* setupDio0Interrupt (lines 268-302), the onSent handler of the           *)
(* application, and the background call of the receive handler.            *)
(***************************************************************************)
\* The TxDone path re-entering receive mode before it resets the DIO0 mapping
txDonePathModeFirst ==
    writeReg(REG_IRQ_FLAGS, IRQ_CLEAR_ALL)
    \o setMode(MODE_RX_CONTINUOUS)
    \o setDio0Mapping(0)
    \o <<Ins("RAISE", 0, APP_TX, 0, <<>>)>>

\* The TxDone path clearing the flags and raising APP_TX, and no more
txDonePathFlagsOnly ==
    writeReg(REG_IRQ_FLAGS, IRQ_CLEAR_ALL)
    \o <<Ins("RAISE", 0, APP_TX, 0, <<>>)>>

\* TxDone path, lines 296-301
txDonePath ==
    writeReg(REG_IRQ_FLAGS, IRQ_CLEAR_ALL)
    \o setDio0Mapping(0)
    \o setMode(MODE_RX_CONTINUOUS)
    \o <<Ins("RAISE", 0, APP_TX, 0, <<>>)>>

\* The scheduler runs the fiber at the head of the queue.  The DIO0 handler
\* begins with: const flags = readReg(REG_IRQ_FLAGS)
RunFiber ==
    /\ pc = "idle"
    /\ runQ # <<>>
    /\ runQ' = Tail(runQ)
    /\ LET f == Head(runQ) IN
        \/ /\ f.kind = "event" /\ f.ev = INT_DIO0
           /\ who' = "onDio0"
           /\ pc' = "d_rxdone"
           /\ loc' = [NoLocals EXCEPT !.flags = regs[REG_IRQ_FLAGS]]
           /\ busLog' = <<T("R", REG_IRQ_FLAGS, regs[REG_IRQ_FLAGS], <<>>)>>
           /\ UNCHANGED hist
        \/ /\ f.kind = "event" /\ f.ev = APP_TX
           /\ hist' = [hist EXCEPT !.sent = @ + 1]
           /\ UNCHANGED <<pc, who, loc, busLog>>
        \/ /\ f.kind = "bg"
           /\ hist' = [hist EXCEPT !.rxDelivered = Append(@, f.msg)]
           /\ UNCHANGED <<pc, who, loc, busLog>>
    /\ UNCHANGED <<chipVars, driverVars, busVars, prog, initVars>>

\* The RxDone path testing the TxDone bit where it should test PayloadCrcError
Dio0RxDoneIgnoringCrc ==
    /\ pc = "d_rxdone"
    /\ \/ /\ BitAnd(loc.flags, IRQ_RX_DONE) # 0
          /\ BitAnd(loc.flags, IRQ_TX_DONE) # 0
          /\ BusWrite(REG_IRQ_FLAGS, IRQ_CLEAR_ALL,
                      <<T("W", REG_IRQ_FLAGS, IRQ_CLEAR_ALL, <<>>)>>)
          /\ pc' = "ret"
          /\ UNCHANGED loc
       \/ /\ BitAnd(loc.flags, IRQ_RX_DONE) # 0
          /\ BitAnd(loc.flags, IRQ_TX_DONE) = 0
          /\ LET currentAddr == regs[REG_FIFO_RX_CURRENT_ADDR] IN
              /\ loc' = [loc EXCEPT !.currentAddr = currentAddr]
              /\ BusWrite(REG_FIFO_ADDR_PTR, currentAddr,
                          <<T("R", REG_FIFO_RX_CURRENT_ADDR, currentAddr, <<>>),
                            T("W", REG_FIFO_ADDR_PTR, currentAddr, <<>>)>>)
          /\ pc' = "d_len"
       \/ /\ BitAnd(loc.flags, IRQ_RX_DONE) = 0
          /\ pc' = "d_txdone"
          /\ UNCHANGED <<regs, txActive, rxBusy, runQ, busLog, loc>>
    /\ UNCHANGED <<fifo, driverVars, busVars, who, prog, initVars, hist>>

\* if ((flags & IRQ_RX_DONE) != 0) { if ((flags & IRQ_PAYLOAD_CRC_ERROR) != 0) {
\*   writeReg(REG_IRQ_FLAGS, IRQ_CLEAR_ALL); return }
\*   const currentAddr = readReg(REG_FIFO_RX_CURRENT_ADDR)
\*   writeReg(REG_FIFO_ADDR_PTR, currentAddr)
Dio0RxDone ==
    /\ pc = "d_rxdone"
    /\ \/ /\ BitAnd(loc.flags, IRQ_RX_DONE) # 0
          /\ BitAnd(loc.flags, IRQ_PAYLOAD_CRC_ERROR) # 0
          /\ BusWrite(REG_IRQ_FLAGS, IRQ_CLEAR_ALL,
                      <<T("W", REG_IRQ_FLAGS, IRQ_CLEAR_ALL, <<>>)>>)
          /\ pc' = "ret"
          /\ UNCHANGED loc
       \/ /\ BitAnd(loc.flags, IRQ_RX_DONE) # 0
          /\ BitAnd(loc.flags, IRQ_PAYLOAD_CRC_ERROR) = 0
          /\ LET currentAddr == regs[REG_FIFO_RX_CURRENT_ADDR] IN
              /\ loc' = [loc EXCEPT !.currentAddr = currentAddr]
              /\ BusWrite(REG_FIFO_ADDR_PTR, currentAddr,
                          <<T("R", REG_FIFO_RX_CURRENT_ADDR, currentAddr, <<>>),
                            T("W", REG_FIFO_ADDR_PTR, currentAddr, <<>>)>>)
          /\ pc' = "d_len"
       \/ /\ BitAnd(loc.flags, IRQ_RX_DONE) = 0
          /\ pc' = "d_txdone"
          /\ UNCHANGED <<regs, txActive, rxBusy, runQ, busLog, loc>>
    /\ UNCHANGED <<fifo, driverVars, busVars, who, prog, initVars, hist>>

\* const len = readReg(REG_RX_NB_BYTES)
Dio0Len ==
    /\ pc = "d_len"
    /\ loc' = [loc EXCEPT !.len = regs[REG_RX_NB_BYTES]]
    /\ busLog' = Append(busLog, T("R", REG_RX_NB_BYTES, regs[REG_RX_NB_BYTES], <<>>))
    /\ pc' = "d_burst"
    /\ UNCHANGED <<chipVars, driverVars, busVars, runQ, who, prog, initVars, hist>>

\* const pkt = burstRead(REG_FIFO, len)
Dio0BurstRead ==
    /\ pc = "d_burst"
    /\ LET pkt == FifoLoad(fifo, regs[REG_FIFO_ADDR_PTR] % FifoCells, loc.len) IN
        /\ loc' = [loc EXCEPT !.pkt = pkt]
        /\ busLog' = Append(busLog, T("BR", REG_FIFO, 0, pkt))
    /\ regs' = [regs EXCEPT ![REG_FIFO_ADDR_PTR] = (@ + loc.len) % FifoCells]
    /\ pc' = "d_rssi"
    /\ UNCHANGED <<fifo, txActive, rxBusy, driverVars, busVars, runQ, who, prog, initVars,
                   hist>>

\* _lastRssi = readReg(REG_PKT_RSSI_VALUE) - 157
Dio0Rssi ==
    /\ pc = "d_rssi"
    /\ _lastRssi' = regs[REG_PKT_RSSI_VALUE] - 157
    /\ busLog' = Append(busLog, T("R", REG_PKT_RSSI_VALUE, regs[REG_PKT_RSSI_VALUE], <<>>))
    /\ pc' = "d_snr"
    /\ UNCHANGED <<chipVars, _inited, _rxHandler, _lastSnrRaw, _sf, _bwCode, busVars, runQ,
                   who, prog, loc, initVars, hist>>

\* _lastSnrRaw = readReg(REG_PKT_SNR_VALUE)
Dio0Snr ==
    /\ pc = "d_snr"
    /\ _lastSnrRaw' = regs[REG_PKT_SNR_VALUE]
    /\ busLog' = Append(busLog, T("R", REG_PKT_SNR_VALUE, regs[REG_PKT_SNR_VALUE], <<>>))
    /\ pc' = "d_clear"
    /\ UNCHANGED <<chipVars, _inited, _rxHandler, _lastRssi, _sf, _bwCode, busVars, runQ,
                   who, prog, loc, initVars, hist>>

\* writeReg(REG_IRQ_FLAGS, IRQ_CLEAR_ALL); const msg = pkt.toString()
\* if (_rxHandler != null) control.runInBackground(function () { _rxHandler(msg) })
Dio0Deliver ==
    /\ pc = "d_clear"
    /\ regs' = ChipWrite(regs, REG_IRQ_FLAGS, IRQ_CLEAR_ALL)
    /\ busLog' = Append(busLog, T("W", REG_IRQ_FLAGS, IRQ_CLEAR_ALL, <<>>))
    /\ runQ' = IF _rxHandler # 0
               THEN Append(runQ, Fiber("bg", 0, _rxHandler, toString(loc.pkt)))
               ELSE runQ
    /\ pc' = "d_txdone"
    /\ UNCHANGED <<fifo, txActive, rxBusy, driverVars, busVars, who, prog, loc, initVars,
                   hist>>

\* The handler taking the TxDone path without testing the flag
Dio0TxDoneUntested ==
    /\ pc = "d_txdone"
    /\ pc' = "run"
    /\ prog' = txDonePath
    /\ UNCHANGED <<chipVars, driverVars, busVars, runQ, who, loc, initVars, busLog, hist>>

\* if ((flags & IRQ_TX_DONE) != 0) { ... }
Dio0TxDone ==
    /\ pc = "d_txdone"
    /\ IF BitAnd(loc.flags, IRQ_TX_DONE) # 0
       THEN pc' = "run" /\ prog' = txDonePath
       ELSE pc' = "ret" /\ UNCHANGED prog
    /\ UNCHANGED <<chipVars, driverVars, busVars, runQ, who, loc, initVars, busLog, hist>>

(***************************************************************************)
(* The driver with its radio environment.                                  *)
(***************************************************************************)
Payloads == {<<1>>, <<72, 105>>}
Strings == {<<233>>}
Handlers == {1}
RssiReads == {70}

\* The steps of init after its call, and the steps of any running call.
InitSteps ==
    \/ InitResetRelease
    \/ \E v \in VersionReads : InitVersion(v)
    \/ InitStandby
    \/ InitConfigure
    \/ Step
    \/ Return

\* The DIO0 event handler and the other queued fibers.
FiberSteps ==
    \/ RunFiber
    \/ Dio0RxDone
    \/ Dio0Len
    \/ Dio0BurstRead
    \/ Dio0Rssi
    \/ Dio0Snr
    \/ Dio0Deliver
    \/ Dio0TxDone

Next ==
    \/ \E band \in Bands : InitCall(band, MaxInits)
    \/ InitSteps
    \/ \E buf \in Payloads : CallSendBuffer(buf, MaxSends)
    \/ \E value \in Strings : CallSendString(value, MaxSends)
    \/ \E h \in Handlers : onReceivedString(h)
    \/ \E h \in Handlers : onSent(h)
    \/ HwRxStart(MaxPkts)
    \/ \E p \in RxPackets, crcError \in BOOLEAN : HwRxDone(p, crcError)
    \/ HwTxDone
    \/ FiberSteps

Spec == Init /\ [][Next]_vars

(***************************************************************************)
(* The whole public interface on a radio that hears nothing: init may be   *)
(* called again, also during a transmission.                               *)
(***************************************************************************)
ApiPayloads == {<<72, 105>>}
ApiStrings == {<<233>>}
ApiPowers == {20}
ApiSfs == {12}
ApiBws == {9}
ApiCrs == {4}
ApiSyncWords == {66}

NextApi ==
    \/ \E band \in Bands : InitCall(band, MaxReinits)
    \/ InitSteps
    \/ \E buf \in ApiPayloads : CallSendBuffer(buf, MaxApiSends)
    \/ \E value \in ApiStrings : CallSendString(value, MaxApiSends)
    \/ \E dBm \in ApiPowers : CallSetTxPower(dBm, MaxCalls)
    \/ \E sf \in ApiSfs : CallSetSpreadingFactor(sf, MaxCalls)
    \/ \E bw \in ApiBws : CallSetBandwidth(bw, MaxCalls)
    \/ \E cr \in ApiCrs : CallSetCodingRate(cr, MaxCalls)
    \/ \E word \in ApiSyncWords : CallSetSyncWord(word, MaxCalls)
    \/ \E h \in Handlers : onReceivedString(h)
    \/ \E h \in Handlers : onSent(h)
    \/ \E r \in RssiReads : channelRssi(r)
    \/ HwTxDone
    \/ RunFiber
    \/ Dio0RxDone
    \/ Dio0TxDone

SpecApi == Init /\ [][NextApi]_vars

(***************************************************************************)
(* The modem setters, over all their enum values, and init.                *)
(***************************************************************************)
SpreadingFactors == 7 .. 12
Bandwidths == 0 .. 9
CodingRates == 1 .. 4
SyncWords == {52, 66}

NextModem ==
    \/ \E band \in Bands : InitCall(band, MaxReinits)
    \/ InitSteps
    \/ \E sf \in SpreadingFactors : CallSetSpreadingFactor(sf, MaxModemCalls)
    \/ \E bw \in Bandwidths : CallSetBandwidth(bw, MaxModemCalls)
    \/ \E cr \in CodingRates : CallSetCodingRate(cr, MaxModemCalls)
    \/ \E word \in SyncWords : CallSetSyncWord(word, MaxModemCalls)

SpecModem == Init /\ [][NextModem]_vars

(***************************************************************************)
(* setTxPower over a range of requests around its documented 2..20.        *)
(***************************************************************************)
MinPower == 0 - 2
MaxPower == 23

NextPower ==
    \/ \E band \in Bands : InitCall(band, MaxReinits)
    \/ InitSteps
    \/ \E dBm \in MinPower .. MaxPower : CallSetTxPower(dBm, MaxCalls)

SpecPower == Init /\ [][NextPower]_vars

(***************************************************************************)
(* setSpreadingFactor over requests inside and outside SF7..SF12.          *)
(***************************************************************************)
MinSf == 5
MaxSf == 14

NextSf ==
    \/ \E band \in Bands : InitCall(band, MaxReinits)
    \/ InitSteps
    \/ \E sf \in MinSf .. MaxSf : CallSetSpreadingFactor(sf, MaxModemCalls)

SpecSf == Init /\ [][NextSf]_vars

(***************************************************************************)
(* The signal readings of a received packet, over every value of the SNR   *)
(* register.                                                               *)
(***************************************************************************)
MaxSignalPkts == 1

SignalPackets ==
    { [payload |-> <<1>>, rssi |-> rssi, snr |-> snr] : rssi \in {0, 200}, snr \in 0 .. 255 }

NextSignal ==
    \/ \E band \in Bands : InitCall(band, MaxInits)
    \/ InitSteps
    \/ \E h \in Handlers : onReceivedString(h)
    \/ HwRxStart(MaxSignalPkts)
    \/ \E p \in SignalPackets, crcError \in BOOLEAN : HwRxDone(p, crcError)
    \/ FiberSteps
    \/ receivedSignalStrength
    \/ receivedSnr

SpecSignal == Init /\ [][NextSignal]_vars

(***************************************************************************)
(* The DIO0 handler over every combination of the three flags it tests:    *)
(* besides completed transmissions the chip raises flags spuriously.       *)
(***************************************************************************)
MaxFlagged == 2

SpuriousFlags ==
    { BitOr(rx, BitOr(crc, tx)) : rx \in {0, IRQ_RX_DONE}, crc \in {0, IRQ_PAYLOAD_CRC_ERROR},
                                  tx \in {0, IRQ_TX_DONE} } \ {0}

NextFlags ==
    \/ \E band \in Bands : InitCall(band, MaxInits)
    \/ InitSteps
    \/ \E buf \in ApiPayloads : CallSendBuffer(buf, MaxApiSends)
    \/ \E h \in Handlers : onReceivedString(h)
    \/ HwTxDone
    \/ \E f \in SpuriousFlags : HwFlags(f, MaxFlagged)
    \/ FiberSteps

SpecFlags == Init /\ [][NextFlags]_vars

(***************************************************************************)
(* Progress: sends, received packets and the interrupts they raise, under  *)
(* fair scheduling.                                                        *)
(***************************************************************************)
\* A running call or handler goes on to its return, the scheduler runs every
\* queued fiber, and a transmission on the air completes.
Fairness ==
    /\ WF_vars(Step)
    /\ WF_vars(Return)
    /\ WF_vars(FiberSteps)
    /\ WF_vars(HwTxDone)

\* The driver with its radio environment and one payload to send.
NextLive ==
    \/ \E band \in Bands : InitCall(band, MaxInits)
    \/ InitSteps
    \/ \E buf \in ApiPayloads : CallSendBuffer(buf, MaxSends)
    \/ \E h \in Handlers : onReceivedString(h)
    \/ \E h \in Handlers : onSent(h)
    \/ HwRxStart(MaxPkts)
    \/ \E p \in RxPackets, crcError \in BOOLEAN : HwRxDone(p, crcError)
    \/ HwTxDone
    \/ FiberSteps

SpecLive == Init /\ [][NextLive]_vars /\ Fairness

(***************************************************************************)
(* The whole public interface with the signal-quality readers.             *)
(***************************************************************************)
NextReaders ==
    \/ NextApi
    \/ receivedSignalStrength
    \/ receivedSnr

SpecReaders == Init /\ [][NextReaders]_vars

(***************************************************************************)
(* Properties.                                                             *)
(***************************************************************************)
LoRaRx == BitOr(MODE_LONG_RANGE, MODE_RX_CONTINUOUS)
LoRaTx == BitOr(MODE_LONG_RANGE, MODE_TX)
LoRaStdby == BitOr(MODE_LONG_RANGE, MODE_STDBY)

\* init is returning, having read `version` from REG_VERSION
InitReturns == pc = "ret" /\ who = "init"

\* C1: when REG_VERSION reads 0x12, init returns with _inited set, the
\* operating mode LoRa | continuous-receive (0x85), DIO0 mapped to RxDone (00),
\* the IRQ flags clear, and the default modem configuration: MODEM_CONFIG_2 =
\* 0x74, MODEM_CONFIG_1 = 0x72, MODEM_CONFIG_3 = 0x04, sync word 0x34; whatever
\* the state init was called in.
C1_InitEndsReceiving ==
    (InitReturns /\ version = CHIP_VERSION) =>
        /\ _inited
        /\ regs[REG_OP_MODE] = LoRaRx
        /\ Dio0Mapping(regs) = 0
        /\ regs[REG_IRQ_FLAGS] = 0
        /\ regs[REG_MODEM_CONFIG_2] = 116
        /\ regs[REG_MODEM_CONFIG_1] = 114
        /\ regs[REG_MODEM_CONFIG_3] = 4
        /\ regs[REG_SYNC_WORD] = 52

\* A second init returns successfully although a transmission started before
\* it returned and never completed, and a setter had changed the configuration.
C1_Witness ==
    /\ InitReturns
    /\ version = CHIP_VERSION
    /\ hist.inits = 2
    /\ hist.sends = 1
    /\ hist.calls = 1
    /\ hist.txDone = 0

\* C2: when REG_VERSION reads anything but 0x12, init returns with _inited
\* false, and the read of REG_VERSION is the only bus transaction it issued: no
\* register write, no second read.
C2_InitFailsWithoutWrites ==
    (InitReturns /\ version # CHIP_VERSION) =>
        /\ ~_inited
        /\ busLog = <<T("R", REG_VERSION, version, <<>>)>>

\* The second init fails on a device the first init had initialised.
C2_Witness ==
    /\ InitReturns
    /\ version # CHIP_VERSION
    /\ hist.inits = 2
    /\ hist.sends = 1

\* The calls that are documented as no-ops before init.
GuardedCalls ==
    {"sendString", "sendBuffer", "setTxPower", "setSpreadingFactor", "setBandwidth",
     "setCodingRate", "setSyncWord", "channelRssi"}

\* C3: a call of sendString, sendBuffer, a setter or channelRssi on a device
\* that is not initialised returns at once: no bus transaction, the chip and
\* the driver's variables and registrations as they were; channelRssi returns 0.
C3_UninitialisedCallsAreNoOps ==
    [][(pc = "idle" /\ ~_inited /\ who' \in GuardedCalls) =>
            /\ pc' = "ret"
            /\ busLog' = <<>>
            /\ prog' = <<>>
            /\ loc'.retval = 0
            /\ UNCHANGED <<chipVars, driverVars, busVars, runQ>>]_vars

\* setSyncWord has returned on a device whose second init failed.
C3_Witness ==
    /\ pc = "ret"
    /\ who = "setSyncWord"
    /\ ~_inited
    /\ hist.inits = 2
    /\ hist.sends = 1

\* No fiber runs or waits, and init is not paused.
Quiescent == pc = "idle" /\ runQ = <<>> /\ initPc = "idle"

\* C4: every receive-complete interrupt raised for a packet without CRC error,
\* on an initialised device with a text handler registered, leads to exactly
\* one call of the handler with that packet's text, in every interleaving with
\* foreground calls.  Stated for the first packet: once all fibers have run,
\* the texts delivered are the texts of the interrupts raised.
C4_EveryPacketDelivered ==
    (Quiescent /\ hist.pkts <= 1 /\ hist.rxRaised # <<>>) =>
        hist.rxDelivered = hist.rxRaised

\* C6: every transmission that completes is reported: once all fibers have run
\* and the chip is off the air, the send-completion event has been raised once
\* per completed transmission.
C6_EveryCompletionReported == (Quiescent /\ ~txActive) => hist.appTx = hist.txDone

\* The DIO0 handler is at its RxDone test with RxDone and PayloadCrcError read.
CrcErrorRead ==
    /\ BitAnd(loc.flags, IRQ_RX_DONE) # 0
    /\ BitAnd(loc.flags, IRQ_PAYLOAD_CRC_ERROR) # 0

\* C5: when the DIO0 handler has read IRQ flags with RxDone and PayloadCrcError
\* set, its next step writes 0xFF to REG_IRQ_FLAGS, which clears every flag, and
\* returns: its whole bus traffic is the flags read and that write (no FIFO
\* access), no fiber is queued for the receive handler, and _lastRssi and
\* _lastSnrRaw keep their values.
C5_CrcErrorDiscards ==
    [][(pc = "d_rxdone" /\ pc' # pc /\ CrcErrorRead) =>
            /\ pc' = "ret"
            /\ busLog' = <<T("R", REG_IRQ_FLAGS, loc.flags, <<>>),
                           T("W", REG_IRQ_FLAGS, IRQ_CLEAR_ALL, <<>>)>>
            /\ regs'[REG_IRQ_FLAGS] = 0
            /\ runQ' = runQ
            /\ hist' = hist
            /\ UNCHANGED <<fifo, driverVars, busVars>>]_vars

\* The handler has discarded a packet after an earlier packet had been stored:
\* _lastRssi and _lastSnrRaw still hold the earlier packet's readings.
C5_Witness ==
    /\ pc = "ret"
    /\ who = "onDio0"
    /\ CrcErrorRead
    /\ _lastRssi # 0
    /\ _lastSnrRaw # 0
    /\ Len(busLog) = 2

\* The running call is about to write LoRa | continuous-receive to REG_OP_MODE.
NextWritesRx ==
    /\ pc = "run"
    /\ prog # <<>>
    /\ Head(prog).op = "W"
    /\ Head(prog).reg = REG_OP_MODE
    /\ Byte(Head(prog).val) = LoRaRx

\* A sendBuffer / sendString call is between its Standby write and its TX write.
SendInStandby ==
    /\ pc = "run"
    /\ who \in {"sendBuffer", "sendString"}
    /\ regs[REG_OP_MODE] = LoRaStdby

\* An init call has put the chip to Sleep or Standby and has not yet reset the
\* DIO0 mapping (the last write of configRadioDefaults).
InitBeforeMapping ==
    /\ initPc \in {"slept", "stdby", "tail"}
    /\ regs[REG_OP_MODE] \in {BitOr(MODE_LONG_RANGE, MODE_SLEEP), LoRaStdby}

\* C7 as claimed: in every state, also between the register writes of a call,
\* DIO0 is mapped to TxDone (01) only if the operating mode is TX; and whenever
\* continuous-receive is about to be written, the mapping is already RxDone (00).
C7_TxRoutingOnlyInTxMode ==
    /\ Dio0Mapping(regs) = 1 => regs[REG_OP_MODE] = LoRaTx
    /\ NextWritesRx => Dio0Mapping(regs) = 0

\* C7 (amended): DIO0 is mapped to TxDone only if the operating mode is TX, or a
\* send call is in its Standby step, or an init call is between its first mode
\* write and its reset of the mapping; and whenever continuous-receive is about
\* to be written, the mapping is already RxDone.
C7_TxRoutingAmended ==
    /\ Dio0Mapping(regs) = 1 =>
            regs[REG_OP_MODE] = LoRaTx \/ SendInStandby \/ InitBeforeMapping
    /\ NextWritesRx => Dio0Mapping(regs) = 0

\* The DIO0 handler is about to re-enter receive mode after a transmission
\* while DIO0 is already mapped back to RxDone.
C7_Witness ==
    /\ NextWritesRx
    /\ who = "onDio0"
    /\ Dio0Mapping(regs) = 0
    /\ hist.txDone = 1

\* The spreading factor and bandwidth code currently held in the chip: the
\* upper nibbles of MODEM_CONFIG_2 and MODEM_CONFIG_1.
RegSf == Shr(regs[REG_MODEM_CONFIG_2], 4)
RegBw == Shr(regs[REG_MODEM_CONFIG_1], 4)

\* Bit 3 of MODEM_CONFIG_3.
LdroBit == BitAnd(regs[REG_MODEM_CONFIG_3], 8) # 0

\* No call is running and the last init has succeeded.
InitialisedAtRest == pc = "idle" /\ initPc = "idle" /\ _inited

\* C8: after any sequence of init, setSpreadingFactor(7..12) and
\* setBandwidth(0..9) calls on an initialised device, the low-data-rate
\* optimisation bit is set iff 2^SF * 100 > 16 * BW_KHZ_X100[BW], with SF and
\* BW the values the chip's MODEM_CONFIG_2 and MODEM_CONFIG_1 hold.
C8_LdroFollowsRegisters ==
    (InitialisedAtRest /\ RegBw \in Bandwidths) =>
        (LdroBit <=> (Shl(1, RegSf) * 100 > 16 * BW_KHZ_X100[RegBw + 1]))

\* A setTxPower call on an initialised device has made its writes.
SetTxPowerDone == pc = "ret" /\ who = "setTxPower" /\ _inited

\* The PA_CONFIG and PA_DAC values setTxPower(dBm) writes on an initialised device.
PaWrites(dBm) == <<setTxPower(dBm)[1].val, setTxPower(dBm)[2].val>>

PaRegs == <<regs[REG_PA_CONFIG], regs[REG_PA_DAC]>>

\* C9: setTxPower clamps its argument to 2..20: setTxPower(dBm) leaves PA_CONFIG
\* and PA_DAC with the values setTxPower(min(20, max(2, dBm))) would leave.
C9_TxPowerClamped ==
    SetTxPowerDone => PaRegs = PaWrites(Min(20, Max(2, loc.arg)))

\* C10 as claimed: setTxPower(1) and setTxPower(2) leave PA_CONFIG = 0x80 and
\* PA_DAC = 0x84; setTxPower(20) leaves 0x8F and 0x87; every dBm in 2..19
\* leaves PA_CONFIG = 0x80 | (dBm - 2) and PA_DAC = 0x84.
C10_TxPowerTable ==
    SetTxPowerDone =>
        /\ loc.arg \in {1, 2} => PaRegs = <<128, 132>>
        /\ loc.arg = 20 => PaRegs = <<143, 135>>
        /\ loc.arg \in 2 .. 19 => PaRegs = <<BitOr(128, loc.arg - 2), 132>>

\* C10 (amended): setTxPower(1) and setTxPower(2) leave PA_CONFIG = 0x80 and
\* PA_DAC = 0x84; setTxPower(20) leaves 0x8F and 0x87; every dBm in 2..19
\* leaves PA_CONFIG = 0x80 | min(15, dBm - 2) and PA_DAC = 0x84, so that 17, 18
\* and 19 leave the same PA_CONFIG, and 19 and 20 differ in PA_DAC only.
C10_TxPowerTableAmended ==
    SetTxPowerDone =>
        /\ loc.arg \in {1, 2} => PaRegs = <<128, 132>>
        /\ loc.arg = 20 => PaRegs = <<143, 135>>
        /\ loc.arg \in 2 .. 19 => PaRegs = <<BitOr(128, Min(15, loc.arg - 2)), 132>>

\* setTxPower(20) has selected the high-power path on an initialised device.
C10_Witness ==
    /\ SetTxPowerDone
    /\ loc.arg = 20
    /\ PaRegs = <<143, 135>>
    /\ Len(busLog) = 2

\* C11: once a transmission has started, it ends only by completing (the chip
\* raising TxDone): no step of a call of the public interface, a second
\* sendBuffer / sendString or a setter included, ends it or writes the operating
\* mode away from TX.
C11_NoAbort ==
    [][(txActive /\ ~txActive') => hist'.txDone = hist.txDone + 1]_vars

\* A setSpreadingFactor call on an initialised device has made its writes.
SetSfDone == pc = "ret" /\ who = "setSpreadingFactor" /\ _inited

\* C12: setSpreadingFactor(sf) validates 7 <= sf <= 12.  With sf outside 7..12
\* neither the SF field of MODEM_CONFIG_2 nor the cached spreading factor leaves
\* 7..12; with sf in 7..12 the call writes sf into the upper nibble of
\* MODEM_CONFIG_2, keeps the lower nibble it read, and recomputes LDRO.
C12_SpreadingFactorValidated ==
    SetSfDone =>
        IF loc.arg \in 7 .. 12
        THEN /\ Len(busLog) = 4
             /\ busLog[2] = T("W", REG_MODEM_CONFIG_2,
                              BitOr(BitAnd(busLog[1].val, 15), Shl(loc.arg, 4)), <<>>)
             /\ _sf = loc.arg
             /\ LdroBit <=> (Shl(1, loc.arg) * 100 > 16 * BW_KHZ_X100[_bwCode + 1])
        ELSE RegSf \in 7 .. 12 /\ _sf \in 7 .. 12

\* The frequency word in the chip, most significant byte first.
FrfRegs == <<regs[REG_FRF_MSB], regs[REG_FRF_MID], regs[REG_FRF_LSB]>>

\* C13: the frequency word init writes is floor(freqHz * 2^19 / 32,000,000)
\* (16384 for each MHz), most significant byte in register 0x06: init(EU868)
\* leaves (0xD9, 0x00, 0x00) and init(AU915) leaves (0xE4, 0xC0, 0x00).
C13_FrequencyWord ==
    (InitReturns /\ version = CHIP_VERSION) =>
        /\ 65536 * FrfRegs[1] + 256 * FrfRegs[2] + FrfRegs[3] = 16384 * initBand
        /\ initBand = EU868 => FrfRegs = <<217, 0, 0>>
        /\ initBand = AU915 => FrfRegs = <<228, 192, 0>>
        /\ FrfRegs \in {<<217, 0, 0>>, <<228, 192, 0>>}

\* A second init, this one for AU915, has written the frequency word.
C13_Witness ==
    /\ InitReturns
    /\ version = CHIP_VERSION
    /\ initBand = AU915
    /\ hist.inits = 2
    /\ FrfRegs = <<228, 192, 0>>

\* The stored raw SNR byte read as a two's-complement signed 8-bit value.
SignedSnr == IF _lastSnrRaw <= 127 THEN _lastSnrRaw ELSE _lastSnrRaw - 256

\* C14: receivedSnr returns the stored raw SNR byte, read as a signed 8-bit
\* value, divided by 4 (0xFF gives -0.25, 0x08 gives 2.0); before any packet
\* receivedSnr and receivedSignalStrength return 0; and the dispatcher stores
\* the packet RSSI register value it read minus 157 in _lastRssi, which
\* receivedSignalStrength returns.
C14_SignalReadings ==
    /\ (pc = "ret" /\ who = "receivedSnr") =>
            /\ 4 * loc.retval + loc.quarters = SignedSnr
            /\ loc.quarters \in 0 .. 3
            /\ _lastSnrRaw = 255 => (loc.retval = 0 - 1 /\ loc.quarters = 3)
            /\ _lastSnrRaw = 8 => (loc.retval = 2 /\ loc.quarters = 0)
            /\ hist.pkts = 0 => (loc.retval = 0 /\ loc.quarters = 0)
    /\ (pc = "ret" /\ who = "receivedSignalStrength") =>
            /\ loc.retval = _lastRssi
            /\ hist.pkts = 0 => loc.retval = 0
    /\ pc = "d_snr" =>
            busLog[Len(busLog)] = T("R", REG_PKT_RSSI_VALUE, _lastRssi + 157, <<>>)
    /\ _lastSnrRaw \in 0 .. 255

\* receivedSnr returns -0.25 for a packet stored with raw SNR 0xFF and packet
\* RSSI register 200.
C14_Witness ==
    /\ pc = "ret"
    /\ who = "receivedSnr"
    /\ _lastSnrRaw = 255
    /\ _lastRssi = 200 - 157
    /\ loc.retval = 0 - 1
    /\ loc.quarters = 3

\* The DIO0 handler is returning; loc.flags is the flags value it read.
Dio0Returns == pc = "ret" /\ who = "onDio0"

\* The handler's bus log shows the TxDone path: the DIO0 mapping written back
\* to RxDone and then continuous-receive written to REG_OP_MODE.
TxDonePathLogged ==
    \E i \in 1 .. (Len(busLog) - 1) :
        /\ busLog[i].op = "W"
        /\ busLog[i].reg = REG_DIO_MAPPING_1
        /\ Shr(busLog[i].val, 6) = 0
        /\ busLog[i + 1] = T("W", REG_OP_MODE, LoRaRx, <<>>)

\* The handler's bus log shows the receive sequence: a burst read of the FIFO.
RxPathLogged == \E i \in 1 .. Len(busLog) : busLog[i].op = "BR"

\* C15: the DIO0 handler tests RxDone and TxDone independently.  Whatever flags
\* value it read, if TxDone is set it resets the DIO0 mapping, re-enters
\* continuous-receive and raises APP_TX, whatever the RxDone and PayloadCrcError
\* bits are; and if RxDone is set without PayloadCrcError it runs the receive
\* sequence, whatever the TxDone bit is.
C15_BitsCheckedIndependently ==
    Dio0Returns =>
        /\ BitAnd(loc.flags, IRQ_TX_DONE) # 0 => (TxDonePathLogged /\ hist.appTx > 0)
        /\ (BitAnd(loc.flags, IRQ_RX_DONE) # 0 /\ BitAnd(loc.flags, IRQ_PAYLOAD_CRC_ERROR) = 0)
                => RxPathLogged

\* The radio is back in continuous-receive with DIO0 mapped to RxDone.
Receiving == regs[REG_OP_MODE] = LoRaRx /\ Dio0Mapping(regs) = 0

\* C16: once initialised the device has no terminal state.  With a running call
\* going on to its return, queued fibers run and transmissions completing,
\* every state in which the radio is Transmitting, or in the Standby step of a
\* send, is followed by a state in which the operating mode is
\* continuous-receive and DIO0 is mapped to RxDone, whatever the interleaving of
\* sends, received packets and stale interrupt events that follows the one init
\* call (the property says nothing once init is called again).
C16_BackToReceiving ==
    (regs[REG_OP_MODE] = LoRaTx \/ SendInStandby) ~> (Receiving \/ hist.inits > 1)

\* After two transmissions, one of whose interrupt events found the flags
\* already cleared, the radio is at rest in continuous-receive.
C16_Witness ==
    /\ Quiescent
    /\ Receiving
    /\ hist.txDone = 2
    /\ hist.appTx = 1

\* A sendBuffer call on an initialised device has made its register accesses.
SendBufferDone == pc = "ret" /\ who = "sendBuffer" /\ _inited

\* C17: sendBuffer on an initialised device accesses the chip in exactly this
\* order: Standby written to REG_OP_MODE; 0xFF written to REG_IRQ_FLAGS; the
\* DIO0 mapping read and written back with bits 7..6 = 01; 0 written to
\* REG_FIFO_ADDR_PTR; the payload burst-written to the FIFO; the payload length
\* written to REG_PAYLOAD_LENGTH; TX written to REG_OP_MODE, the last access.
C17_SendBufferOrder ==
    SendBufferDone =>
        /\ Len(busLog) = 8
        /\ busLog[1] = T("W", REG_OP_MODE, LoRaStdby, <<>>)
        /\ busLog[2] = T("W", REG_IRQ_FLAGS, IRQ_CLEAR_ALL, <<>>)
        /\ busLog[3].op = "R" /\ busLog[3].reg = REG_DIO_MAPPING_1
        /\ busLog[4] = T("W", REG_DIO_MAPPING_1, BitOr(BitAnd(busLog[3].val, 63), 64), <<>>)
        /\ busLog[5] = T("W", REG_FIFO_ADDR_PTR, 0, <<>>)
        /\ busLog[6] = T("BW", REG_FIFO, 0, loc.buf)
        /\ busLog[7] = T("W", REG_PAYLOAD_LENGTH, Len(loc.buf), <<>>)
        /\ busLog[8] = T("W", REG_OP_MODE, LoRaTx, <<>>)

\* sendBuffer has sent "Hi" and the transmission is on the air.
C17_Witness ==
    /\ SendBufferDone
    /\ loc.buf = <<72, 105>>
    /\ Len(busLog) = 8
    /\ txActive
    /\ regs[REG_PAYLOAD_LENGTH] = 2

\* The bits of register a that a call of setter w may change.
SetterMask(w, a) ==
    CASE w = "setBandwidth" /\ a = REG_MODEM_CONFIG_1 -> 240
      [] w = "setCodingRate" /\ a = REG_MODEM_CONFIG_1 -> 14
      [] w = "setSpreadingFactor" /\ a = REG_MODEM_CONFIG_2 -> 240
      [] w \in {"setBandwidth", "setSpreadingFactor"} /\ a = REG_MODEM_CONFIG_3 -> 8
      [] OTHER -> 0

\* A step of a modem setter changes register bits of its own field only.
SetterFrame ==
    (pc = "run" /\ who \in {"setBandwidth", "setCodingRate", "setSpreadingFactor"}) =>
        \A a \in Regs :
            BitAnd(regs'[a], 255 - SetterMask(who, a)) = BitAnd(regs[a], 255 - SetterMask(who, a))

\* A setter that returns has left its argument in its field; and between calls,
\* with init complete, the explicit-header, CRC-on and AGC bits are as init set them.
SetterFields ==
    /\ (pc = "ret" /\ _inited /\ who = "setBandwidth") => RegBw = loc.arg
    /\ (pc = "ret" /\ _inited /\ who = "setSpreadingFactor") => RegSf = loc.arg
    /\ (pc = "ret" /\ _inited /\ who = "setCodingRate") =>
            Shr(BitAnd(regs[REG_MODEM_CONFIG_1], 14), 1) = loc.arg
    /\ InitialisedAtRest =>
            /\ BitAnd(regs[REG_MODEM_CONFIG_1], 1) = 0
            /\ BitAnd(regs[REG_MODEM_CONFIG_2], 4) = 4
            /\ BitAnd(regs[REG_MODEM_CONFIG_3], 4) = 4

\* C18: the modem setters change only their own bit field: setBandwidth bits
\* 7..4 of MODEM_CONFIG_1, setCodingRate bits 3..1 of MODEM_CONFIG_1,
\* setSpreadingFactor bits 7..4 of MODEM_CONFIG_2, and the LDRO recomputation
\* bit 3 of MODEM_CONFIG_3; so after any sequence of setters following init
\* the explicit-header bit is 0, the CRC-on and AGC bits are 1, and each field
\* holds the argument of the last call of its setter.
C18_SettersChangeOwnField == []SetterFields /\ [][SetterFrame]_vars

\* After setBandwidth(9), setCodingRate(4) and setSpreadingFactor(12) the three
\* registers hold 0x98, 0xC4 and 0x04.
C18_Witness ==
    /\ InitialisedAtRest
    /\ hist.calls = 3
    /\ regs[REG_MODEM_CONFIG_1] = 152
    /\ regs[REG_MODEM_CONFIG_2] = 196
    /\ regs[REG_MODEM_CONFIG_3] = 4

\* C19: whenever the device is initialised and no call is running, the cached
\* _sf equals the SF field of MODEM_CONFIG_2 and the cached _bwCode equals the
\* BW field of MODEM_CONFIG_1, after any sequence of init, setSpreadingFactor
\* and setBandwidth calls, a repeated init included.
C19_CacheMatchesRegisters ==
    InitialisedAtRest => (_sf = RegSf /\ _bwCode = RegBw)

\* The DIO0 handler runs on a flags value with neither RxDone nor TxDone set.
StaleDio0 ==
    /\ who = "onDio0"
    /\ BitAnd(loc.flags, BitOr(IRQ_RX_DONE, IRQ_TX_DONE)) = 0

\* The step queues a run of the DIO0 handler: the pulse callback has fired.
Dio0Pulse ==
    /\ Len(runQ') > Len(runQ)
    /\ runQ'[Len(runQ')] = Fiber("event", INT_DIO0, 1, <<>>)

\* The bus log grows by the register write (with the read before it, if any)
\* of the running call's own step.
OwnWriteLogged ==
    /\ pc = "run"
    /\ Len(busLog') \in {Len(busLog) + 1, Len(busLog) + 2}
    /\ SubSeq(busLog', 1, Len(busLog)) = busLog
    /\ busLog'[Len(busLog')].op = "W"
    /\ busLog'[Len(busLog')].reg = Head(prog).reg

\* C20: a stale or spurious interrupt event is harmless.  A run of the DIO0
\* handler that read flags with neither RxDone nor TxDone set makes no register
\* write and no further bus access, queues no handler and raises no event, and
\* leaves operating mode, DIO0 mapping, _lastRssi and _lastSnrRaw as they are;
\* its read of the flags changes no register; and the pulse callback that
\* queues the handler makes no bus access (a step that queues it logs nothing,
\* or only the running call's own write that raised DIO0).
C20_StaleInterruptHarmless ==
    [][/\ (StaleDio0 /\ (pc' # pc \/ prog' # prog)) =>
            /\ UNCHANGED <<chipVars, driverVars, busVars, runQ, hist>>
            /\ busLog' \in {busLog, <<>>}
            /\ busLog = <<T("R", REG_IRQ_FLAGS, loc.flags, <<>>)>>
       /\ (who # "onDio0" /\ who' = "onDio0") => UNCHANGED <<chipVars, driverVars>>
       /\ Dio0Pulse => (UNCHANGED driverVars /\ (busLog' = busLog \/ OwnWriteLogged))]_vars

\* The handler returns from an interrupt whose flags a send had cleared; the
\* transmission of that send is still on the air.
C20_Witness ==
    /\ Dio0Returns
    /\ loc.flags = 0
    /\ busLog = <<T("R", REG_IRQ_FLAGS, 0, <<>>)>>
    /\ txActive
    /\ regs[REG_OP_MODE] = LoRaTx

\* The configuration setters and the signal-quality readers.
SettersAndReaders ==
    {"setTxPower", "setSpreadingFactor", "setBandwidth", "setCodingRate", "setSyncWord",
     "receivedSignalStrength", "receivedSnr", "channelRssi"}

\* The step is the call, a register operation or the return of a setter or reader.
SetterOrReaderStep ==
    \/ who' \in SettersAndReaders /\ who' # who
    \/ who \in SettersAndReaders /\ (pc' # pc \/ prog' # prog)

\* The registers that make the radio state: operating mode, DIO0 mapping, IRQ
\* flags and the FIFO pointers.
RadioStateRegs ==
    {REG_OP_MODE, REG_DIO_MAPPING_1, REG_IRQ_FLAGS, REG_FIFO_ADDR_PTR,
     REG_FIFO_TX_BASE_ADDR, REG_FIFO_RX_BASE_ADDR, REG_FIFO_RX_CURRENT_ADDR}

\* LoRa | sleep, standby, transmit, continuous-receive.
LoRaModes == {BitOr(MODE_LONG_RANGE, m) : m \in {MODE_SLEEP, MODE_STDBY, MODE_TX, MODE_RX_CONTINUOUS}}

\* The operating mode the chip holds is its reset value or a LoRa mode, and a
\* pending or logged write to REG_OP_MODE carries a LoRa mode.
OpModeWrites ==
    /\ regs[REG_OP_MODE] \in LoRaModes \cup {ChipDefaults[REG_OP_MODE]}
    /\ \A i \in 1 .. Len(prog) :
            (prog[i].op \in {"W", "RMW"} /\ prog[i].reg = REG_OP_MODE) =>
                (prog[i].op = "W" /\ Byte(prog[i].val) \in LoRaModes)
    /\ \A i \in 1 .. Len(busLog) :
            (busLog[i].op = "W" /\ busLog[i].reg = REG_OP_MODE) => busLog[i].val \in LoRaModes

\* C21: the configuration setters and the signal-quality readers never change
\* the radio state: in whichever state they are called, their steps leave the
\* operating mode, the DIO0 mapping, the IRQ flags, the FIFO pointers, the
\* transmission or reception under way and the handler registrations unchanged;
\* and every value any operation writes to REG_OP_MODE has the LoRa bit set
\* with low bits sleep, standby, transmit or continuous-receive.
C21_SettersAndReadersKeepRadioState ==
    /\ []OpModeWrites
    /\ [][SetterOrReaderStep =>
            /\ \A a \in RadioStateRegs : regs'[a] = regs[a]
            /\ UNCHANGED <<txActive, rxBusy, fifo, busVars, _rxHandler, runQ>>]_vars

\* setBandwidth returns on an initialised device whose transmission is on the air.
C21_Witness ==
    /\ pc = "ret"
    /\ who = "setBandwidth"
    /\ _inited
    /\ Len(busLog) = 4
    /\ txActive
    /\ regs[REG_OP_MODE] = LoRaTx
    /\ Dio0Mapping(regs) = 1

====
